---- MODULE Spec2Model ----
(***************************************************************************)
(* A model of rendercv/data_model.py: the helper functions                 *)
(* compute_time_span_string and format_date, the Event entry (validation,  *)
(* date reconciliation and its cached derived fields) and the connections  *)
(* of a CurriculumVitae.                                                   *)
(*                                                                         *)
(* Python values are represented as follows.                               *)
(*   str            a TLA+ string                                          *)
(*   None / a value the empty tuple <<>> / the one-element tuple <<v>>     *)
(*   datetime.date  a record [year, month, day]                            *)
(*   "present"      the record [literal |-> "present"]                     *)
(*   list           a sequence; a list object that is shared between two   *)
(*                  names lives in the heap `objs` and is named by its id  *)
(***************************************************************************)
EXTENDS Integers, Sequences, FiniteSets, TLC

VARIABLES
    today,      \* the current date, Date.today()
    raw,        \* the raw input the entry is constructed from
    status,     \* "raw", "valid" (construction succeeded) or "rejected"
    entry,      \* the fields of the Event instance
    objs,       \* heap of list objects: id -> sequence of strings
    cache,      \* the instance's cached_property slots
    raised,     \* the derived fields whose evaluation raised an exception
    first_dls,  \* history: the list date_and_location_strings returned first
    ticks,      \* how many days have passed since Init
    cv_raw,     \* the raw input of the CurriculumVitae
    cv_status,  \* "raw" or "valid"
    cv,         \* the fields of the CurriculumVitae instance
    cv_cache,   \* the cached connections, <<>> before the first access
    span_args,  \* the arguments of a call of compute_time_span_string
    span_result \* its result, <<>> before the call

vars == <<today, raw, status, entry, objs, cache, raised, first_dls, ticks,
          cv_raw, cv_status, cv, cv_cache, span_args, span_result>>

entry_vars == <<today, raw, status, entry, objs, cache, raised, first_dls, ticks>>
cv_vars == <<cv_raw, cv_status, cv, cv_cache>>
span_vars == <<span_args, span_result>>

----------------------------------------------------------------------------
(* Bounds of the model *)

\* the number of days the clock may advance during a behaviour
MaxTicks == 1
\* the longest list of social networks of a CurriculumVitae
MaxSocial == 2
\* the end dates of a time span range over this many years after FirstYear
MaxSpanYears == 11

----------------------------------------------------------------------------
(* Python values *)

None == <<>>
Some(v) == <<v>>
IsNone(x) == x = <<>>
Val(x) == x[1]

\* Python's `sub in s` on two strings
Contains(s, sub) ==
    \E i \in 1..(Len(s) - Len(sub) + 1) : SubSeq(s, i, i + Len(sub) - 1) = sub

Digits == "0123456789"
DigitStr(d) == SubSeq(Digits, d + 1, d + 1)
IsDigit(c) == \E d \in 0..9 : DigitStr(d) = c
DigitVal(c) == CHOOSE d \in 0..9 : DigitStr(d) = c

RECURSIVE NatToStr(_)
NatToStr(n) == IF n < 10 THEN DigitStr(n)
               ELSE NatToStr(n \div 10) \o DigitStr(n % 10)

\* str(n) and the f-string conversion of an int
IntToStr(n) == IF n < 0 THEN "-" \o NatToStr(-n) ELSE NatToStr(n)

\* int(s) for a string of decimal digits
RECURSIVE StrToNat(_)
StrToNat(s) == IF Len(s) = 0 THEN 0
               ELSE 10 * StrToNat(SubSeq(s, 1, Len(s) - 1))
                    + DigitVal(SubSeq(s, Len(s), Len(s)))

AllDigits(s) == \A i \in 1..Len(s) : IsDigit(SubSeq(s, i, i))

----------------------------------------------------------------------------
(* datetime.date *)

MkDate(y, m, d) == [year |-> y, month |-> m, day |-> d]

IsLeap(y) == y % 4 = 0 /\ (y % 100 # 0 \/ y % 400 = 0)

DaysInMonth(y, m) ==
    IF m = 2 THEN (IF IsLeap(y) THEN 29 ELSE 28)
    ELSE IF m \in {4, 6, 9, 11} THEN 30 ELSE 31

RECURSIVE DaysBeforeMonth(_, _)
DaysBeforeMonth(y, m) ==
    IF m = 1 THEN 0 ELSE DaysBeforeMonth(y, m - 1) + DaysInMonth(y, m - 1)

DaysBeforeYear(y) ==
    LET p == y - 1 IN p * 365 + (p \div 4) - (p \div 100) + (p \div 400)

\* date.toordinal(): 0001-01-01 is day 1
ToOrdinal(d) == DaysBeforeYear(d.year) + DaysBeforeMonth(d.year, d.month) + d.day

\* (a - b).days
DaysBetween(a, b) == ToOrdinal(a) - ToOrdinal(b)

IsValidDate(y, m, d) ==
    /\ y \in 1..9999
    /\ m \in 1..12
    /\ d \in 1..DaysInMonth(y, m)

\* date + timedelta(days=1)
NextDay(d) ==
    IF d.day < DaysInMonth(d.year, d.month) THEN MkDate(d.year, d.month, d.day + 1)
    ELSE IF d.month < 12 THEN MkDate(d.year, d.month + 1, 1)
    ELSE MkDate(d.year + 1, 1, 1)

\* Date.fromisoformat(s): a date for "YYYY-MM-DD", None where it raises
\* ValueError
FromIsoFormat(s) ==
    IF /\ Len(s) = 10
       /\ SubSeq(s, 5, 5) = "-"
       /\ SubSeq(s, 8, 8) = "-"
       /\ AllDigits(SubSeq(s, 1, 4))
       /\ AllDigits(SubSeq(s, 6, 7))
       /\ AllDigits(SubSeq(s, 9, 10))
    THEN LET y == StrToNat(SubSeq(s, 1, 4))
             m == StrToNat(SubSeq(s, 6, 7))
             d == StrToNat(SubSeq(s, 9, 10))
         IN IF IsValidDate(y, m, d) THEN Some(MkDate(y, m, d)) ELSE None
    ELSE None

\* date.strftime("%m"): the month as two digits
StrfMonth(d) == IF d.month < 10 THEN "0" \o NatToStr(d.month) ELSE NatToStr(d.month)

\* date.strftime("%Y"), for the four-digit years of the model
StrfYear(d) == NatToStr(d.year)

----------------------------------------------------------------------------
(* Helpers of data_model.py *)

\* round(x / 30) for an integer x >= 0: Python rounds a tie to the even
\* neighbour
RoundDiv30(x) ==
    LET q == x \div 30
        r == x % 30
    IN IF r < 15 THEN q
       ELSE IF r > 15 THEN q + 1
       ELSE IF q % 2 = 0 THEN q ELSE q + 1

\* keeps a month count of 0
compute_time_span_string_no_minimum(start_date, end_date) ==
    LET timeSpanInDays == DaysBetween(end_date, start_date)
        howManyYears == timeSpanInDays \div 365
        howManyMonths == RoundDiv30(timeSpanInDays % 365)
    IN (IF howManyYears = 0 THEN ""
        ELSE IF howManyYears = 1 THEN "1 year "
        ELSE IntToStr(howManyYears) \o " years ")
       \o (IF howManyMonths = 1 THEN "1 month"
           ELSE IntToStr(howManyMonths) \o " months")

compute_time_span_string(start_date, end_date) ==
    LET timeSpanInDays == DaysBetween(end_date, start_date)
        howManyYears == timeSpanInDays \div 365
        howManyYearsString ==
            IF howManyYears = 0 THEN None
            ELSE IF howManyYears = 1 THEN Some("1 year")
            ELSE Some(IntToStr(howManyYears) \o " years")
        rounded == RoundDiv30(timeSpanInDays % 365)
        howManyMonths == IF rounded = 0 THEN 1 ELSE rounded
        howManyMonthsString ==
            IF howManyMonths = 0 THEN None
            ELSE IF howManyMonths = 1 THEN Some("1 month")
            ELSE Some(IntToStr(howManyMonths) \o " months")
    IN IF IsNone(howManyYearsString) THEN Val(howManyMonthsString)
       ELSE IF IsNone(howManyMonthsString) THEN Val(howManyYearsString)
       ELSE Val(howManyYearsString) \o " " \o Val(howManyMonthsString)

abbreviations_of_months ==
    <<"Jan.", "Feb.", "Mar.", "Apr.", "May", "June",
      "July", "Aug.", "Sept.", "Oct.", "Nov.", "Dec.">>

format_date(date) ==
    LET month == StrToNat(StrfMonth(date))
        monthAbbreviation == abbreviations_of_months[month]
        year == StrfYear(date)
    IN monthAbbreviation \o " " \o year

----------------------------------------------------------------------------
(* Event: validation *)

Present == [literal |-> "present"]
IsPresent(x) == x = Some(Present)

\* accepts today as well
PastDateOrToday(now, d) == ToOrdinal(d) <= ToOrdinal(now)

\* pydantic's PastDate constraint on a date d when the current date is now:
\* the date must be in the past
PastDate(now, d) == ToOrdinal(d) < ToOrdinal(now)

\* the field validation of start_date and end_date
FieldsValid(now, r) ==
    /\ IsNone(r.start_date) \/ PastDate(now, Val(r.start_date))
    /\ \/ IsNone(r.end_date)
       \/ IsPresent(r.end_date)
       \/ PastDate(now, Val(r.end_date))

\* check_spelling returns the sentence it was given
check_spelling(sentence) == sentence

\* clears only start_date when date wins
check_dates_keeps_end_date(model) ==
    IF /\ ~IsNone(model.start_date)
       /\ ~IsNone(model.end_date)
       /\ ~IsNone(model.date)
    THEN [model EXCEPT !.date = None]
    ELSE IF /\ ~IsNone(model.date)
            /\ (~IsNone(model.start_date) \/ ~IsNone(model.end_date))
    THEN [model EXCEPT !.start_date = None]
    ELSE model

\* the model validator that runs after the fields are validated
check_dates(model) ==
    IF /\ ~IsNone(model.start_date)
       /\ ~IsNone(model.end_date)
       /\ ~IsNone(model.date)
    THEN [model EXCEPT !.date = None]
    ELSE IF /\ ~IsNone(model.date)
            /\ (~IsNone(model.start_date) \/ ~IsNone(model.end_date))
    THEN [model EXCEPT !.start_date = None, !.end_date = None]
    ELSE model

\* the instance built from a raw input whose fields are valid
Validated(r) ==
    check_dates([r EXCEPT !.highlights =
        IF IsNone(r.highlights) THEN None
        ELSE Some([i \in 1..Len(Val(r.highlights)) |->
                      check_spelling(Val(r.highlights)[i])])])

----------------------------------------------------------------------------
(* Event: derived fields.  An evaluation returns [ok |-> TRUE, value |-> v] *)
(* or raises: [ok |-> FALSE, exc |-> the exception].                        *)

Return(v) == [ok |-> TRUE, value |-> v]
Raise(e) == [ok |-> FALSE, exc |-> e]

\* the body of the property date_and_location_strings
date_and_location_strings(self, now) ==
    LET loc == IF ~IsNone(self.location) THEN <<Val(self.location)>> ELSE <<>>
    IN IF ~IsNone(self.date)
       THEN LET parsed == FromIsoFormat(Val(self.date))
            IN IF ~IsNone(parsed)
               THEN Return(Append(loc, format_date(Val(parsed))))
               ELSE Return(Append(loc, Val(self.date)))
       ELSE IF IsNone(self.start_date)
       THEN Raise("AttributeError")     \* format_date(None)
       ELSE LET start_date == format_date(Val(self.start_date))
            IN IF IsPresent(self.end_date)
               THEN Return(loc \o
                      <<start_date \o " to " \o "present",
                        compute_time_span_string(Val(self.start_date), now)>>)
               ELSE IF IsNone(self.end_date)
               THEN Raise("AttributeError")     \* format_date(None)
               ELSE Return(loc \o
                      <<start_date \o " to " \o format_date(Val(self.end_date)),
                        compute_time_span_string(Val(self.start_date),
                                                 Val(self.end_date))>>)

\* looks for years only
IsTimeSpanYearsOnly(string) ==
    \/ Contains(string, "years")
    \/ Contains(string, "year")

\* the test of the loop of date_and_location_strings_without_time_span
IsTimeSpan(string) ==
    \/ Contains(string, "years")
    \/ Contains(string, "months")
    \/ Contains(string, "year")
    \/ Contains(string, "month")

\* list.remove(x): removes the first element equal to x
ListRemove(list, x) ==
    LET i == CHOOSE k \in 1..Len(list) :
                 list[k] = x /\ \A j \in 1..(k - 1) : list[j] # x
    IN SubSeq(list, 1, i - 1) \o SubSeq(list, i + 1, Len(list))

\* the for loop of date_and_location_strings_without_time_span: the iterator
\* is at position i (from 1) of the list it is removing from
RECURSIVE RemoveWhileIterating(_, _)
RemoveWhileIterating(list, i) ==
    IF i > Len(list) THEN list
    ELSE IF IsTimeSpan(list[i])
         THEN RemoveWhileIterating(ListRemove(list, list[i]), i + 1)
         ELSE RemoveWhileIterating(list, i + 1)

\* the body of Event.highlight_strings
Event_highlight_strings(self) ==
    IF IsNone(self.highlights)
    THEN Raise("TypeError")             \* [].extend(None)
    ELSE Return(<<>> \o Val(self.highlights))

\* str() of a validated HttpUrl
UrlToStr(u) == u.scheme \o "://" \o u.host \o "/" \o u.path

\* the body of EducationEntry.highlight_strings
EducationEntry_highlight_strings(self) ==
    LET gpaString ==
            IF IsNone(self.gpa) THEN <<>>
            ELSE IF IsNone(self.transcript_url)
                 THEN <<"GPA: " \o Val(self.gpa)>>
                 ELSE <<"GPA: " \o Val(self.gpa) \o " ([Transcript]("
                        \o UrlToStr(Val(self.transcript_url)) \o "))">>
    IN IF IsNone(self.highlights)
       THEN Raise("TypeError")          \* highlight_strings.extend(None)
       ELSE Return(gpaString \o Val(self.highlights))

\* highlight_strings as the entry's class defines it
highlight_strings(self) ==
    IF self.kind = "EducationEntry"
    THEN EducationEntry_highlight_strings(self)
    ELSE Event_highlight_strings(self)

\* the body of the property markdown_url
markdown_url(self) ==
    IF IsNone(self.url) THEN None
    ELSE LET url == UrlToStr(Val(self.url))
             link_text ==
                 IF Contains(url, "github") THEN "view on GitHub"
                 ELSE IF Contains(url, "linkedin") THEN "view on LinkedIn"
                 ELSE IF Contains(url, "instagram") THEN "view on Instagram"
                 ELSE IF Contains(url, "youtube") THEN "view on YouTube"
                 ELSE "view on my website"
         IN Some("[" \o link_text \o "](" \o url \o ")")

----------------------------------------------------------------------------
(* The inputs of the entry *)

\* the current date when the entry is constructed
Today0 == MkDate(2023, 10, 15)
Tomorrow0 == NextDay(Today0)

D1 == MkDate(2020, 9, 1)
D2 == MkDate(2022, 6, 15)

MkUrl(host, path) == [scheme |-> "https", host |-> host, path |-> path]

StartDates == {None, Some(D1), Some(D2), Some(Today0), Some(Tomorrow0)}
EndDates == {None, Some(Present), Some(D1), Some(D2), Some(Today0), Some(Tomorrow0)}
DateStrings == {None, Some("2020-01-15"), Some("2023-13-01"),
                Some("Fall 2023"), Some("2 years")}
\* "1 year 10 months" is the time span from D1 to D2
Locations == {None, Some("Ankara, Turkey"), Some("6 months in Izmir"),
              Some("1 year 10 months")}
Highlights == {None, Some(<<>>), Some(<<"Did this.", "Did that.">>)}
Gpas == {None, Some("3.99/4.00")}
Urls == {None,
         Some(MkUrl("github.com", "sinaatalay")),
         Some(MkUrl("www.linkedin.com", "in/sinaatalay")),
         Some(MkUrl("www.linkedin.com", "in/github-fan")),
         Some(MkUrl("www.instagram.com", "sinaatalay")),
         Some(MkUrl("www.youtube.com", "watch")),
         Some(MkUrl("example.com", "about")),
         Some(MkUrl("example.com", "blog/youtube-tips"))}
TranscriptUrls == {None, Some(MkUrl("example.com", "transcript.pdf"))}
Kinds == {"OneLineEntry", "NormalEntry", "ExperienceEntry", "EducationEntry"}

BaseInput ==
    [kind |-> "NormalEntry", start_date |-> Some(D1), end_date |-> Some(D2),
     date |-> None, location |-> Some("Ankara, Turkey"),
     highlights |-> Some(<<"Did this.", "Did that.">>), url |-> None,
     gpa |-> None, transcript_url |-> None]

\* inputs that differ in the dates and the location
DateInputs ==
    {[BaseInput EXCEPT !.start_date = s, !.end_date = e, !.date = d,
                       !.location = l] :
        s \in StartDates, e \in EndDates, d \in DateStrings, l \in Locations}

\* inputs that differ in the class, the highlights and the GPA
HighlightInputs ==
    {[BaseInput EXCEPT !.kind = k, !.highlights = h, !.gpa = g,
                       !.transcript_url = t] :
        k \in Kinds, h \in Highlights, g \in Gpas, t \in TranscriptUrls}

\* inputs that differ in the URL
UrlInputs == {[BaseInput EXCEPT !.url = u] : u \in Urls}

\* inputs with none of the optional fields but one
SparseInputs ==
    {[BaseInput EXCEPT !.kind = "OneLineEntry", !.start_date = s,
                       !.end_date = e, !.location = None, !.highlights = h] :
        s \in {None, Some(D1)}, e \in {None, Some(D2)}, h \in Highlights}

\* gpa and transcript_url are fields of EducationEntry only
EntryInputs ==
    {r \in DateInputs \cup HighlightInputs \cup UrlInputs \cup SparseInputs :
        r.kind # "EducationEntry" => IsNone(r.gpa) /\ IsNone(r.transcript_url)}

----------------------------------------------------------------------------
(* The entry as a state machine *)

EmptyCache ==
    [date_and_location_strings |-> None,
     date_and_location_strings_without_time_span |-> None,
     highlight_strings |-> None,
     markdown_url |-> None]

InitEntry ==
    /\ today = Today0
    /\ ticks = 0
    /\ raw \in EntryInputs
    /\ status = "raw"
    /\ entry = raw
    /\ objs = <<>>
    /\ cache = EmptyCache
    /\ raised = {}
    /\ first_dls = None

\* a day passes
Tick ==
    /\ ticks < MaxTicks
    /\ ticks' = ticks + 1
    /\ today' = NextDay(today)
    /\ UNCHANGED <<raw, status, entry, objs, cache, raised, first_dls>>

\* the entry is constructed from the raw input: the fields are validated and
\* check_dates runs, or construction fails with a ValidationError
Construct ==
    /\ status = "raw"
    /\ IF FieldsValid(today, raw)
       THEN /\ status' = "valid"
            /\ entry' = Validated(raw)
       ELSE /\ status' = "rejected"
            /\ UNCHANGED entry
    /\ UNCHANGED <<today, ticks, raw, objs, cache, raised, first_dls>>

\* an access to entry.date_and_location_strings
Get_date_and_location_strings ==
    /\ status = "valid"
    /\ IF ~IsNone(cache.date_and_location_strings)
       THEN UNCHANGED <<objs, cache, raised, first_dls>>
       ELSE LET r == date_and_location_strings(entry, today)
            IN IF r.ok
               THEN /\ objs' = Append(objs, r.value)
                    /\ cache' = [cache EXCEPT !.date_and_location_strings =
                                                  Some(Len(objs) + 1)]
                    /\ first_dls' = Some(r.value)
                    /\ UNCHANGED raised
               ELSE /\ raised' = raised \cup {"date_and_location_strings"}
                    /\ UNCHANGED <<objs, cache, first_dls>>
    /\ UNCHANGED <<today, ticks, raw, status, entry>>

\* an access to entry.date_and_location_strings_without_time_span: it reads
\* date_and_location_strings (computing and caching it when it is not cached)
\* and removes from the list it got
Get_date_and_location_strings_without_time_span ==
    /\ status = "valid"
    /\ IF ~IsNone(cache.date_and_location_strings_without_time_span)
       THEN UNCHANGED <<objs, cache, raised, first_dls>>
       ELSE IF ~IsNone(cache.date_and_location_strings)
       THEN LET id == Val(cache.date_and_location_strings)
            IN /\ objs' = [objs EXCEPT ![id] = RemoveWhileIterating(objs[id], 1)]
               /\ cache' = [cache EXCEPT
                     !.date_and_location_strings_without_time_span = Some(id)]
               /\ UNCHANGED <<raised, first_dls>>
       ELSE LET r == date_and_location_strings(entry, today)
                id == Len(objs) + 1
            IN IF r.ok
               THEN /\ objs' = Append(objs, RemoveWhileIterating(r.value, 1))
                    /\ cache' = [cache EXCEPT
                          !.date_and_location_strings = Some(id),
                          !.date_and_location_strings_without_time_span = Some(id)]
                    /\ first_dls' = Some(r.value)
                    /\ UNCHANGED raised
               ELSE /\ raised' = raised \cup
                          {"date_and_location_strings",
                           "date_and_location_strings_without_time_span"}
                    /\ UNCHANGED <<objs, cache, first_dls>>
    /\ UNCHANGED <<today, ticks, raw, status, entry>>

\* an access to entry.highlight_strings
Get_highlight_strings ==
    /\ status = "valid"
    /\ IF ~IsNone(cache.highlight_strings)
       THEN UNCHANGED <<cache, raised>>
       ELSE LET r == highlight_strings(entry)
            IN IF r.ok
               THEN /\ cache' = [cache EXCEPT !.highlight_strings = Some(r.value)]
                    /\ UNCHANGED raised
               ELSE /\ raised' = raised \cup {"highlight_strings"}
                    /\ UNCHANGED cache
    /\ UNCHANGED <<today, ticks, raw, status, entry, objs, first_dls>>

\* an access to entry.markdown_url
Get_markdown_url ==
    /\ status = "valid"
    /\ IF ~IsNone(cache.markdown_url)
       THEN UNCHANGED cache
       ELSE cache' = [cache EXCEPT !.markdown_url = Some(markdown_url(entry))]
    /\ UNCHANGED <<today, ticks, raw, status, entry, objs, raised, first_dls>>

----------------------------------------------------------------------------
(* CurriculumVitae: connections *)

Networks == {"LinkedIn", "GitHub", "Instagram"}
Usernames == {"sinaatalay", "jdoe"}
SocialNetwork == [network : Networks, username : Usernames]

Connection(name, value) == [name |-> name, value |-> value]

SocialNetworkLists ==
    UNION {[1..n -> SocialNetwork] : n \in 0..MaxSocial}

CvInputs ==
    [phone : {None, Some("tel:+90-541-999-99-99")},
     email : {None, Some("jdoe@example.com")},
     website : {None, Some(MkUrl("example.com", "jdoe"))},
     social_networks : {None} \cup {Some(l) : l \in SocialNetworkLists}]

\* ignores the website
connections_without_website(self) ==
    (IF ~IsNone(self.phone) THEN <<Connection("phone", Val(self.phone))>> ELSE <<>>)
    \o (IF ~IsNone(self.email) THEN <<Connection("email", Val(self.email))>> ELSE <<>>)
    \o (IF ~IsNone(self.social_networks)
        THEN [i \in 1..Len(Val(self.social_networks)) |->
                 Connection(Val(self.social_networks)[i].network,
                            Val(self.social_networks)[i].username)]
        ELSE <<>>)

\* the body of the property connections
connections(self) ==
    LET c1 == IF ~IsNone(self.phone)
              THEN <<Connection("phone", Val(self.phone))>> ELSE <<>>
        c2 == IF ~IsNone(self.email)
              THEN Append(c1, Connection("email", Val(self.email))) ELSE c1
        c3 == IF ~IsNone(self.website)
              THEN Append(c2, Connection("website", UrlToStr(Val(self.website))))
              ELSE c2
    IN IF ~IsNone(self.social_networks)
       THEN c3 \o [i \in 1..Len(Val(self.social_networks)) |->
                      Connection(Val(self.social_networks)[i].network,
                                 Val(self.social_networks)[i].username)]
       ELSE c3

InitCurriculumVitae ==
    /\ cv_raw \in CvInputs
    /\ cv_status = "raw"
    /\ cv = cv_raw
    /\ cv_cache = None

\* the CurriculumVitae is constructed from its (valid) raw input
ConstructCV ==
    /\ cv_status = "raw"
    /\ cv_status' = "valid"
    /\ cv' = cv_raw
    /\ UNCHANGED <<cv_raw, cv_cache>>

\* an access to cv.connections
Get_connections ==
    /\ cv_status = "valid"
    /\ IF ~IsNone(cv_cache)
       THEN UNCHANGED cv_cache
       ELSE cv_cache' = Some(connections(cv))
    /\ UNCHANGED <<cv_raw, cv_status, cv>>

----------------------------------------------------------------------------
(* Calls of compute_time_span_string *)

SpanFirst == MkDate(2010, 1, 1)

SpanStarts == {SpanFirst, MkDate(2011, 3, 1), MkDate(2012, 2, 29),
               MkDate(2015, 12, 31)}

SpanEnds ==
    UNION {{MkDate(y, m, d) : d \in 1..DaysInMonth(y, m)} :
              y \in SpanFirst.year..(SpanFirst.year + MaxSpanYears), m \in 1..12}

InitSpan ==
    /\ span_args \in SpanStarts \X SpanEnds
    /\ span_result = None

Call_compute_time_span_string ==
    /\ IsNone(span_result)
    /\ span_result' = Some(compute_time_span_string(span_args[1], span_args[2]))
    /\ UNCHANGED span_args

----------------------------------------------------------------------------
(* Specifications *)

\* the parts of the state a specification does not use
IdleEntry ==
    /\ today = Today0
    /\ ticks = 0
    /\ raw = BaseInput
    /\ status = "raw"
    /\ entry = raw
    /\ objs = <<>>
    /\ cache = EmptyCache
    /\ raised = {}
    /\ first_dls = None

IdleCV ==
    /\ cv_raw = [phone |-> None, email |-> None, website |-> None,
                 social_networks |-> None]
    /\ cv_status = "raw"
    /\ cv = cv_raw
    /\ cv_cache = None

IdleSpan ==
    /\ span_args = <<SpanFirst, SpanFirst>>
    /\ span_result = None

\* one entry: its construction and the accesses to its derived fields
Init == InitEntry /\ IdleCV /\ IdleSpan

Next ==
    \/ Tick /\ UNCHANGED <<cv_vars, span_vars>>
    \/ Construct /\ UNCHANGED <<cv_vars, span_vars>>
    \/ Get_date_and_location_strings /\ UNCHANGED <<cv_vars, span_vars>>
    \/ Get_date_and_location_strings_without_time_span
           /\ UNCHANGED <<cv_vars, span_vars>>
    \/ Get_highlight_strings /\ UNCHANGED <<cv_vars, span_vars>>
    \/ Get_markdown_url /\ UNCHANGED <<cv_vars, span_vars>>

Spec == Init /\ [][Next]_vars

\* one CurriculumVitae
InitCv == IdleEntry /\ InitCurriculumVitae /\ IdleSpan

NextCv ==
    \/ ConstructCV /\ UNCHANGED <<entry_vars, span_vars>>
    \/ Get_connections /\ UNCHANGED <<entry_vars, span_vars>>

SpecCv == InitCv /\ [][NextCv]_vars

\* one call of compute_time_span_string
InitTimeSpan == IdleEntry /\ IdleCV /\ InitSpan

NextTimeSpan == Call_compute_time_span_string /\ UNCHANGED <<entry_vars, cv_vars>>

SpecTimeSpan == InitTimeSpan /\ [][NextTimeSpan]_vars

----------------------------------------------------------------------------
(* Properties of the entry, checked under Spec *)

AllThree(r) == ~IsNone(r.date) /\ ~IsNone(r.start_date) /\ ~IsNone(r.end_date)
DateAndSome(r) ==
    ~IsNone(r.date) /\ (~IsNone(r.start_date) \/ ~IsNone(r.end_date))

\* C1: check_dates, for every combination of present and absent date,
\* start_date and end_date: with all three present the entry has date absent
\* and start_date and end_date as given; otherwise, with date and one of
\* start_date and end_date present, the entry has start_date and end_date
\* absent and date as given; in every other case the three fields are as
\* given.  No valid entry has date together with start_date or end_date.
C1_Reconciliation ==
    status = "valid" =>
        /\ AllThree(raw) =>
              /\ IsNone(entry.date)
              /\ entry.start_date = raw.start_date
              /\ entry.end_date = raw.end_date
        /\ (~AllThree(raw) /\ DateAndSome(raw)) =>
              /\ IsNone(entry.start_date)
              /\ IsNone(entry.end_date)
              /\ entry.date = raw.date
        /\ (~AllThree(raw) /\ ~DateAndSome(raw)) =>
              /\ entry.date = raw.date
              /\ entry.start_date = raw.start_date
              /\ entry.end_date = raw.end_date
        /\ ~DateAndSome(entry)

\* a valid entry that was given date and end_date only
C1_Witness ==
    /\ status = "valid"
    /\ ~IsNone(raw.date) /\ IsNone(raw.start_date) /\ ~IsNone(raw.end_date)
    /\ IsNone(entry.end_date) /\ ~IsNone(entry.date)

\* a date field of the input that is after the current date
HasDateAfter(now, r) ==
    \/ ~IsNone(r.start_date) /\ ToOrdinal(Val(r.start_date)) > ToOrdinal(now)
    \/ /\ ~IsNone(r.end_date) /\ ~IsPresent(r.end_date)
       /\ ToOrdinal(Val(r.end_date)) > ToOrdinal(now)

\* a date field of the input that is the current date or after it
HasDateNotBefore(now, r) ==
    \/ ~IsNone(r.start_date) /\ ToOrdinal(Val(r.start_date)) >= ToOrdinal(now)
    \/ /\ ~IsNone(r.end_date) /\ ~IsPresent(r.end_date)
       /\ ToOrdinal(Val(r.end_date)) >= ToOrdinal(now)

\* C2 as stated: the construction of an entry fails exactly when start_date
\* or a calendar end_date is strictly after the current date; the current
\* date itself is accepted.
C2_TodayAccepted ==
    [][(status = "raw" /\ status' # "raw") =>
          (status' = "rejected" <=> HasDateAfter(today, raw))]_vars

\* C2 amended: the construction of an entry fails exactly when start_date or a
\* calendar end_date is the current date or after it; only dates strictly
\* before the current date are accepted.
C2_TodayRejected ==
    [][(status = "raw" /\ status' # "raw") =>
          (status' = "rejected" <=> HasDateNotBefore(today, raw))]_vars

\* an entry whose start_date is the current date was rejected
C2_Witness ==
    /\ status = "rejected"
    /\ ticks = 0
    /\ raw.start_date = Some(today)
    /\ IsNone(raw.end_date)

HasSpanWord(string) == Contains(string, "year") \/ Contains(string, "month")
NoSpanWord(string) == ~HasSpanWord(string)

\* what an access to the cached field returns
Cached_dls == objs[Val(cache.date_and_location_strings)]
Cached_wts == objs[Val(cache.date_and_location_strings_without_time_span)]

\* C3: date_and_location_strings_without_time_span is the list that
\* date_and_location_strings had when it was first computed without the
\* elements that contain "year" or "month", the others in their order.
C3_AllSpanWordsRemoved ==
    ~IsNone(cache.date_and_location_strings_without_time_span) =>
        Cached_wts = SelectSeq(Val(first_dls), NoSpanWord)

\* C4: for a valid entry whose date string comes from start_date and end_date
\* (date absent, start_date present, end_date a date or "present"), with any
\* location or none, no element of date_and_location_strings_without_time_span
\* contains "year" or "month".
C4_NoSpanWordLeft ==
    (/\ status = "valid"
     /\ IsNone(entry.date) /\ ~IsNone(entry.start_date) /\ ~IsNone(entry.end_date)
     /\ ~IsNone(cache.date_and_location_strings_without_time_span)) =>
        \A i \in 1..Len(Cached_wts) : ~HasSpanWord(Cached_wts[i])

\* the field was computed for an entry with a start_date, an end_date and a
\* location that itself contains "month"
C4_Witness ==
    /\ status = "valid"
    /\ IsNone(entry.date) /\ ~IsNone(entry.start_date) /\ ~IsNone(entry.end_date)
    /\ entry.location = Some("6 months in Izmir")
    /\ ~IsNone(cache.date_and_location_strings_without_time_span)
    /\ Len(Val(first_dls)) = 3
    /\ Len(Cached_wts) = 1

\* C5: every access to date_and_location_strings returns the contents it
\* returned first, whatever accesses to the derived fields come in between;
\* computing date_and_location_strings_without_time_span leaves it unchanged.
C5_DlsNeverChanges ==
    ~IsNone(cache.date_and_location_strings) => Cached_dls = Val(first_dls)

\* the label of the platform recognised in a host
HostLabel(host) ==
    IF Contains(host, "github") THEN "view on GitHub"
    ELSE IF Contains(host, "linkedin") THEN "view on LinkedIn"
    ELSE IF Contains(host, "instagram") THEN "view on Instagram"
    ELSE IF Contains(host, "youtube") THEN "view on YouTube"
    ELSE "view on my website"

\* C8: markdown_url is absent exactly when url is absent; otherwise it is
\* "[<label>](<url>)" with the label of the platform recognised in the host
\* of the URL, "view on my website" when the host is none of the platforms.
C8_LabelFromHost ==
    ~IsNone(cache.markdown_url) =>
        Val(cache.markdown_url) =
            IF IsNone(entry.url) THEN None
            ELSE Some("[" \o HostLabel(Val(entry.url).host) \o "]("
                      \o UrlToStr(Val(entry.url)) \o ")")

highlight_strings_accessed ==
    ~IsNone(cache.highlight_strings) \/ "highlight_strings" \in raised

\* the GPA line of an EducationEntry with a gpa, in a list
GpaLine(e) ==
    IF IsNone(e.transcript_url) THEN <<"GPA: " \o Val(e.gpa)>>
    ELSE <<"GPA: " \o Val(e.gpa) \o " ([Transcript]("
           \o UrlToStr(Val(e.transcript_url)) \o "))">>

\* C9: once highlight_strings was accessed, for an EducationEntry with a gpa
\* it is exactly one GPA line ("GPA: <gpa>", with " ([Transcript](<url>))"
\* appended when transcript_url is set) followed by the highlights of the
\* entry in their order; without a gpa, and for the other classes, it is the
\* highlights.  The stored highlights are as given.
C9_GpaThenHighlights ==
    (status = "valid" /\ highlight_strings_accessed) =>
        /\ (entry.kind = "EducationEntry" /\ ~IsNone(entry.gpa)) =>
              cache.highlight_strings =
                  Some(GpaLine(entry) \o
                       (IF IsNone(entry.highlights) THEN <<>>
                        ELSE Val(entry.highlights)))
        /\ (~(entry.kind = "EducationEntry" /\ ~IsNone(entry.gpa))
              /\ ~IsNone(entry.highlights)) =>
              cache.highlight_strings = Some(Val(entry.highlights))
        /\ entry.highlights = raw.highlights

\* C10: no derived field of a valid entry raises an error when it is
\* evaluated, whichever optional fields are absent.
C10_NothingRaises == status = "valid" => raised = {}

----------------------------------------------------------------------------
(* Properties of the connections, checked under SpecCv *)

Count(x) == IF IsNone(x) THEN 0 ELSE 1
Socials(c) == IF IsNone(c.social_networks) THEN <<>> ELSE Val(c.social_networks)

\* C6: connections holds a phone connection if phone is set, then an email
\* connection if email is set, then a website connection if website is set,
\* then one connection per social network (name = network, value = username)
\* in input order, and nothing else: its length is the number of set contact
\* fields plus the number of social networks.
C6_ConnectionsInOrder ==
    ~IsNone(cv_cache) =>
        LET c == Val(cv_cache)
            np == Count(cv.phone)
            ne == Count(cv.email)
            nw == Count(cv.website)
        IN /\ Len(c) = np + ne + nw + Len(Socials(cv))
           /\ np = 1 => c[1] = Connection("phone", Val(cv.phone))
           /\ ne = 1 => c[np + 1] = Connection("email", Val(cv.email))
           /\ nw = 1 => /\ c[np + ne + 1].name = "website"
                        /\ c[np + ne + 1].value = UrlToStr(Val(cv.website))
           /\ \A i \in 1..Len(Socials(cv)) :
                 /\ c[np + ne + nw + i].name = Socials(cv)[i].network
                 /\ c[np + ne + nw + i].value = Socials(cv)[i].username

\* connections was computed for a phone, a website and two social networks,
\* without an email
C6_Witness ==
    /\ ~IsNone(cv_cache)
    /\ ~IsNone(cv.phone) /\ IsNone(cv.email) /\ ~IsNone(cv.website)
    /\ Len(Socials(cv)) = 2
    /\ Len(Val(cv_cache)) = 4

----------------------------------------------------------------------------
(* Properties of compute_time_span_string, checked under SpecTimeSpan *)

Abs(n) == IF n < 0 THEN -n ELSE n

\* the integer nearest to x / 30, the even one of two that are equally near
NearestEven(x) ==
    CHOOSE k \in 0..13 :
        \A j \in (0..13) \ {k} :
            \/ Abs(x - 30 * k) < Abs(x - 30 * j)
            \/ Abs(x - 30 * k) = Abs(x - 30 * j) /\ k % 2 = 0

Plural(n, word) == IntToStr(n) \o " " \o word \o (IF n = 1 THEN "" ELSE "s")

StartsWith(s, prefix) == Len(s) >= Len(prefix) /\ SubSeq(s, 1, Len(prefix)) = prefix

\* C7: for start <= end and days = end - start the result is built from
\* years = days div 365 and months = (days mod 365) / 30 rounded to the
\* nearest integer, ties to even, 0 replaced by 1: "<months> month[s]" when
\* years = 0 and "<years> year[s] <months> month[s]" otherwise, singular
\* exactly for 1.  The result is not empty, no count in it is 0, the month
\* count is in 1..12 and the span from a date to itself is "1 month".
C7_TimeSpanString ==
    (~IsNone(span_result) /\ ToOrdinal(span_args[1]) <= ToOrdinal(span_args[2])) =>
        LET days == ToOrdinal(span_args[2]) - ToOrdinal(span_args[1])
            years == days \div 365
            nearest == NearestEven(days % 365)
            months == IF nearest = 0 THEN 1 ELSE nearest
            result == Val(span_result)
        IN /\ months \in 1..12
           /\ result = IF years = 0 THEN Plural(months, "month")
                       ELSE Plural(years, "year") \o " " \o Plural(months, "month")
           /\ result # ""
           /\ ~StartsWith(result, "0 ") /\ ~Contains(result, " 0 ")
           /\ days = 0 => result = "1 month"

\* the call was made for a span of 75 days more than ten years, where
\* 75 / 30 = 2.5 is rounded to 2
C7_Witness ==
    /\ ~IsNone(span_result)
    /\ ToOrdinal(span_args[2]) - ToOrdinal(span_args[1]) = 10 * 365 + 75
    /\ Val(span_result) = "10 years 2 months"

====
